---- MODULE Spec2Model ----
(***************************************************************************)
(* Model of the permission subsystem:                                      *)
(*   - the process-wide permission cache and CheckUserPermissions          *)
(*     (package business), stepped at the granularity of its lock          *)
(*     operations and of the call to the authority;                        *)
(*   - GetUserPermissions / HasPermission / FilterResources on the         *)
(*     aggregated UserPermissions snapshot (package kubernetes).           *)
(***************************************************************************)
EXTENDS Integers, Sequences, FiniteSets, TLC

\* ------------------------------------------------------------------------
\* Bounds and value universes
\* ------------------------------------------------------------------------
MaxTime == 6          \* the clock runs over 0..MaxTime (minutes)
MaxReview == 2        \* longest review sequence the authority answers with
MaxBindings == 2      \* longest ClusterRoleBinding list the authority returns
MaxItems == 2         \* longest item list handed to FilterResources

TTLMinutes == 5       \* 5*time.Minute

Callers == {"c1", "c2"}
SeqCallers == {"c1"}
Users == {"alice", "bob"}
ResourceTypes == {"pods", "svc"}
CheckVerbs == {"get", "*"}
Refs == {"s1", "s2"}      \* *ResourcePermissions objects owned by callers
Mutable == {"s1"}         \* the objects callers write to after building them
NilRef == "nil"           \* the nil *ResourcePermissions
Absent == "absent"        \* no key in the map

NoMap == [x \in {} |-> <<>>]             \* a map with no key (functions with empty domain)

\* Go map read with the "comma ok" idiom and the plain (zero value) read.
HasKey(m, k) == k \in DOMAIN m
MapGet(m, k) == IF k \in DOMAIN m THEN m[k] ELSE <<>>
MapPut(m, k, v) == [x \in (DOMAIN m) \cup {k} |-> IF x = k THEN v ELSE m[x]]

Contains(s, x) == \E i \in 1..Len(s) : s[i] = x

\* ResourcePermissions.ResourcePermissions values callers build.
RPMaps == { [x \in {"pods"} |-> <<"list", "get">>],
            [x \in {"pods"} |-> <<"*">>] }

\* ------------------------------------------------------------------------
\* State
\* ------------------------------------------------------------------------
VARIABLES
    cache,      \* userPermissionsCache.permissions: user -> Refs, NilRef or Absent
    heap,       \* the ResourcePermissions objects: ref -> [rp, lc]
    now,        \* wall clock
    readers,    \* callers holding the RWMutex for reading
    writers,    \* callers holding the RWMutex for writing
    call,       \* per caller: position, arguments, locals and result
    world,      \* what the authority's role listing answers for GetUserPermissions
    res,        \* outcome of the last GetUserPermissions
    eval        \* the last HasPermission / FilterResources evaluation

vars == <<cache, heap, now, readers, writers, call, world, res, eval>>
cacheVars == <<cache, heap, now, readers, writers, call>>
resolverVars == <<world, res, eval>>

\* ------------------------------------------------------------------------
\* The authority's self-review primitive (GetSelfSubjectAccessReview)
\* ------------------------------------------------------------------------
RECURSIVE BoolSeqs(_)
BoolSeqs(n) ==
    IF n = 0 THEN {<<>>}
    ELSE BoolSeqs(n - 1) \cup
         {Append(s, b) : s \in {t \in BoolSeqs(n - 1) : Len(t) = n - 1}, b \in BOOLEAN}

NoResponse == [err |-> FALSE, review |-> <<>>]
Responses ==
    {[err |-> TRUE, review |-> <<>>]} \cup
    {[err |-> FALSE, review |-> s] : s \in BoolSeqs(MaxReview)}

\* ------------------------------------------------------------------------
\* Callers of the cache operations
\* ------------------------------------------------------------------------
NoPerm == [exists |-> FALSE, ref |-> NilRef]

Idle == [pc |-> "idle", op |-> "none", user |-> "alice", rtype |-> "pods",
         verb |-> "get", snap |-> NilRef, perm |-> NoPerm, ret |-> "none",
         resp |-> NoResponse, n |-> 0]

AtRest(c) == call[c].pc \in {"idle", "done"}

\* Variant: the write lock excludes nobody.
CanLockAlways(c) == TRUE

\* Variant: a reader enters whatever the writers do.
CanRLockAlways(c) == TRUE

\* sync.RWMutex: a reader enters when no writer holds the lock, a writer when
\* nobody holds it.
CanRLock(c) == writers = {}
CanLock(c) == readers = {} /\ writers = {}

\* A map access made while another goroutine writes the map is a data race.
Raced(c) == writers \ {c} # {}
RacedWrite(c) == (writers \cup readers) \ {c} # {}

\* permissions, exists := userPermissionsCache.permissions[username]
Lookup(m, u) ==
    IF m[u] = Absent THEN NoPerm ELSE [exists |-> TRUE, ref |-> m[u]]

\* The value the plain map read gives: nil for a missing key.
MapRead(m, u) == IF m[u] = Absent THEN NilRef ELSE m[u]

\* Variant: an entry of exactly 5 minutes counts as stale.
StaleInclusive(obj, t) == t - obj.lc >= TTLMinutes

\* time.Since(permissions.LastChecked) > 5*time.Minute
Stale(obj, t) == t - obj.lc > TTLMinutes

\* Variant: the cached path expands wildcards as HasPermission does.
CachedAllowsWildcard(obj, rtype, verb) ==
    HasKey(obj.rp, rtype) /\
    \E i \in 1..Len(obj.rp[rtype]) : obj.rp[rtype][i] = verb \/ obj.rp[rtype][i] = "*"

\* The loop over the cached verbs of the resource type.
CachedAllows(obj, rtype, verb) ==
    HasKey(obj.rp, rtype) /\ \E i \in 1..Len(obj.rp[rtype]) : obj.rp[rtype][i] = verb

\* Variant: the last review decides.
LiveResultLast(resp) ==
    IF resp.err THEN "error"
    ELSE IF Len(resp.review) = 0 THEN "false"
    ELSE IF resp.review[Len(resp.review)] THEN "true" ELSE "false"

\* Variant: an authority failure is reported as a denial.
LiveResultDenyOnError(resp) ==
    IF resp.err \/ Len(resp.review) = 0 THEN "false"
    ELSE IF resp.review[1] THEN "true" ELSE "false"

\* What CheckUserPermissions returns from the authority's answer.
LiveResult(resp) ==
    IF resp.err THEN "error"
    ELSE IF Len(resp.review) = 0 THEN "false"
    ELSE IF resp.review[1] THEN "true" ELSE "false"

Set(c, f) == call' = [call EXCEPT ![c] = f]

\* --- CheckUserPermissions -------------------------------------------------
CheckCall(c, u, r, v) ==
    /\ AtRest(c)
    /\ Set(c, [Idle EXCEPT !.pc = "c_rlock", !.op = "Check", !.user = u,
                           !.rtype = r, !.verb = v])
    /\ UNCHANGED <<cache, heap, now, readers, writers, resolverVars>>

CheckRLock(c) ==
    /\ call[c].pc = "c_rlock"
    /\ CanRLock(c)
    /\ readers' = readers \cup {c}
    /\ Set(c, [call[c] EXCEPT !.pc = "c_read"])
    /\ UNCHANGED <<cache, heap, now, writers, resolverVars>>

\* Variant: the read lock is kept after the map read.
CheckReadHoldLock(c) ==
    /\ call[c].pc = "c_read"
    /\ call' = [call EXCEPT ![c] = [call[c] EXCEPT !.pc = "c_test",
                                        !.perm = Lookup(cache, call[c].user)]]
    /\ UNCHANGED <<cache, heap, now, readers, writers, resolverVars>>

\* the map read and RUnlock
CheckRead(c) ==
    /\ call[c].pc = "c_read"
    /\ \E p \in (IF Raced(c) THEN {Lookup(cache, call[c].user), NoPerm}
                 ELSE {Lookup(cache, call[c].user)}) :
          Set(c, [call[c] EXCEPT !.pc = "c_test", !.perm = p])
    /\ readers' = readers \ {c}
    /\ UNCHANGED <<cache, heap, now, writers, resolverVars>>

\* if !exists || time.Since(permissions.LastChecked) > 5*time.Minute
CheckTest(c) ==
    /\ call[c].pc = "c_test"
    /\ LET p == call[c].perm IN
         IF p.exists /\ p.ref = NilRef
         THEN Set(c, [call[c] EXCEPT !.pc = "done", !.ret = "panic"])
         ELSE IF ~p.exists \/ Stale(heap[p.ref], now)
         THEN Set(c, [call[c] EXCEPT !.pc = "c_auth", !.n = @ + 1])
         ELSE Set(c, [call[c] EXCEPT !.pc = "c_cached"])
    /\ UNCHANGED <<cache, heap, now, readers, writers, resolverVars>>

\* Variant: a live re-check evicts the entry it found stale.
CheckAuthReturnEvict(c) ==
    /\ call[c].pc = "c_auth"
    /\ \E resp \in Responses :
          call' = [call EXCEPT ![c] = [call[c] EXCEPT !.pc = "done", !.resp = resp,
                                                      !.ret = LiveResult(resp)]]
    /\ cache' = [cache EXCEPT ![call[c].user] = Absent]
    /\ UNCHANGED <<heap, now, readers, writers, resolverVars>>

\* the authority answers the pending GetSelfSubjectAccessReview
CheckAuthReturn(c) ==
    /\ call[c].pc = "c_auth"
    /\ \E resp \in Responses :
          Set(c, [call[c] EXCEPT !.pc = "done", !.resp = resp,
                                 !.ret = LiveResult(resp)])
    /\ UNCHANGED <<cache, heap, now, readers, writers, resolverVars>>

\* the exact-match lookup in the cached snapshot
CheckCached(c) ==
    /\ call[c].pc = "c_cached"
    /\ Set(c, [call[c] EXCEPT !.pc = "done",
                 !.ret = IF CachedAllows(heap[call[c].perm.ref], call[c].rtype,
                                         call[c].verb)
                         THEN "true" ELSE "false"])
    /\ UNCHANGED <<cache, heap, now, readers, writers, resolverVars>>

\* --- CacheUserPermissions -------------------------------------------------
PutCall(c, u, s) ==
    /\ AtRest(c)
    /\ Set(c, [Idle EXCEPT !.pc = "p_lock", !.op = "Put", !.user = u, !.snap = s])
    /\ UNCHANGED <<cache, heap, now, readers, writers, resolverVars>>

PutLock(c) ==
    /\ call[c].pc = "p_lock"
    /\ CanLock(c)
    /\ writers' = writers \cup {c}
    /\ Set(c, [call[c] EXCEPT !.pc = "p_write"])
    /\ UNCHANGED <<cache, heap, now, readers, resolverVars>>

\* Variant: an existing entry is kept.
PutStoreKeepExisting(m, u, s) == IF m[u] = Absent THEN [m EXCEPT ![u] = s] ELSE m

PutStore(m, u, s) == [m EXCEPT ![u] = s]

\* the map assignment and the deferred Unlock
PutWrite(c) ==
    /\ call[c].pc = "p_write"
    /\ cache' \in (IF RacedWrite(c)
                   THEN {PutStore(cache, call[c].user, call[c].snap), cache}
                   ELSE {PutStore(cache, call[c].user, call[c].snap)})
    /\ writers' = writers \ {c}
    /\ Set(c, [call[c] EXCEPT !.pc = "done", !.ret = "ok"])
    /\ UNCHANGED <<heap, now, readers, resolverVars>>

\* --- GetUserPermissions (cache) -------------------------------------------
GetCall(c, u) ==
    /\ AtRest(c)
    /\ Set(c, [Idle EXCEPT !.pc = "g_rlock", !.op = "Get", !.user = u])
    /\ UNCHANGED <<cache, heap, now, readers, writers, resolverVars>>

GetRLock(c) ==
    /\ call[c].pc = "g_rlock"
    /\ CanRLock(c)
    /\ readers' = readers \cup {c}
    /\ Set(c, [call[c] EXCEPT !.pc = "g_read"])
    /\ UNCHANGED <<cache, heap, now, writers, resolverVars>>

\* the map read and the deferred RUnlock
GetRead(c) ==
    /\ call[c].pc = "g_read"
    /\ \E r \in (IF Raced(c) THEN {MapRead(cache, call[c].user), NilRef}
                 ELSE {MapRead(cache, call[c].user)}) :
          Set(c, [call[c] EXCEPT !.pc = "done", !.ret = r])
    /\ readers' = readers \ {c}
    /\ UNCHANGED <<cache, heap, now, writers, resolverVars>>

\* --- ClearUserPermissions -------------------------------------------------
DeleteCall(c, u) ==
    /\ AtRest(c)
    /\ Set(c, [Idle EXCEPT !.pc = "d_lock", !.op = "Delete", !.user = u])
    /\ UNCHANGED <<cache, heap, now, readers, writers, resolverVars>>

DeleteLock(c) ==
    /\ call[c].pc = "d_lock"
    /\ CanLock(c)
    /\ writers' = writers \cup {c}
    /\ Set(c, [call[c] EXCEPT !.pc = "d_write"])
    /\ UNCHANGED <<cache, heap, now, readers, resolverVars>>

\* Variant: the whole map is cleared.
DeleteKeyAll(m, u) == [x \in DOMAIN m |-> Absent]

DeleteKey(m, u) == [m EXCEPT ![u] = Absent]

\* delete(map, username) and the deferred Unlock
DeleteWrite(c) ==
    /\ call[c].pc = "d_write"
    /\ cache' \in (IF RacedWrite(c)
                   THEN {DeleteKey(cache, call[c].user), cache}
                   ELSE {DeleteKey(cache, call[c].user)})
    /\ writers' = writers \ {c}
    /\ Set(c, [call[c] EXCEPT !.pc = "done", !.ret = "ok"])
    /\ UNCHANGED <<heap, now, readers, resolverVars>>

\* --- the environment of the cache -----------------------------------------
\* time passes
Tick ==
    /\ now < MaxTime
    /\ now' = now + 1
    /\ UNCHANGED <<cache, heap, readers, writers, call, resolverVars>>

\* A caller writes through a *ResourcePermissions it holds: both fields of the
\* struct are exported and the cache keeps and hands out the pointer itself.
MutateSnapshot(r) ==
    /\ \E m \in RPMaps :
          /\ [rp |-> m, lc |-> now] # heap[r]
          /\ heap' = [heap EXCEPT ![r] = [rp |-> m, lc |-> now]]
    /\ UNCHANGED <<cache, now, readers, writers, call, resolverVars>>

\* ------------------------------------------------------------------------
\* The aggregated snapshot: GetUserPermissions, HasPermission, FilterResources
\* ------------------------------------------------------------------------
Groups == {"", "core", "apps"}
FilterGroups == {"core", "apps"}
EvalVerbs == {"get", "list"}

Rule(g, r, v) == [APIGroups |-> g, Resources |-> r, Verbs |-> v]

\* The ClusterRoles the authority stores; any other name is not found.
ClusterRoles ==
    [n \in {"viewer", "lister", "ops"} |->
        CASE n = "viewer" -> <<Rule(<<"*">>, <<"pods">>, <<"get">>)>>
          [] n = "lister" -> <<Rule(<<"">>, <<"pods">>, <<"list">>),
                               Rule(<<"apps">>, <<"svc", "pods">>, <<"get", "list">>)>>
          [] n = "ops"    -> <<Rule(<<"apps">>, <<"*">>, <<"list">>),
                               Rule(<<"apps">>, <<"*">>, <<"*">>)>>]

RoleNames == DOMAIN ClusterRoles \cup {"gone"}

\* ClusterRoles().Get
GetClusterRole(name) ==
    IF name \in DOMAIN ClusterRoles
    THEN [err |-> FALSE, Rules |-> ClusterRoles[name]]
    ELSE [err |-> TRUE, Rules |-> <<>>]

Subject(k, n) == [Kind |-> k, Name |-> n]

Binding(subjects, roleRef) == [Subjects |-> subjects, RoleRef |-> roleRef]

\* The ClusterRoleBindings a listing is made of.
Bindings ==
    { Binding(<<Subject("User", "alice")>>, "viewer"),
      Binding(<<Subject("User", "alice")>>, "lister"),
      Binding(<<Subject("Group", "alice"), Subject("User", "bob"),
                Subject("User", "bob")>>, "ops"),
      Binding(<<Subject("User", "alice")>>, "gone") }

RECURSIVE BindingLists(_)
BindingLists(n) ==
    IF n = 0 THEN {<<>>}
    ELSE BindingLists(n - 1) \cup
         {Append(s, b) : s \in {t \in BindingLists(n - 1) : Len(t) = n - 1},
                         b \in Bindings}

\* What ClusterRoleBindings().List answers.
Worlds ==
    {[listErr |-> TRUE, crbs |-> <<>>]} \cup
    {[listErr |-> FALSE, crbs |-> l] : l \in BindingLists(MaxBindings)}

\* The nil *UserPermissions an error comes with carries no maps.
NilPermissions == [Resources |-> NoMap, APIGroups |-> NoMap]
EmptyPermissions ==
    [Resources |-> NoMap, APIGroups |-> NoMap, fetched |-> <<>>, err |-> FALSE]

\* for _, apiGroup := range rule.APIGroups { ... append ... }
GroupKey(g) == IF g = "*" THEN "core" ELSE g

\* Variant: a later rule replaces what the group held.
RECURSIVE ProcessAPIGroupsOverwrite(_, _, _)
ProcessAPIGroupsOverwrite(G, groups, resources) ==
    IF groups = <<>> THEN G
    ELSE ProcessAPIGroupsOverwrite(MapPut(G, GroupKey(Head(groups)), resources),
                                   Tail(groups), resources)

RECURSIVE ProcessAPIGroups(_, _, _)
ProcessAPIGroups(G, groups, resources) ==
    IF groups = <<>> THEN G
    ELSE LET k == GroupKey(Head(groups)) IN
         ProcessAPIGroups(MapPut(G, k, MapGet(G, k) \o resources),
                          Tail(groups), resources)

\* Variant: the verbs of a later rule are added to those already held.
RECURSIVE ProcessResourcesUnion(_, _, _)
ProcessResourcesUnion(R, resources, verbs) ==
    IF resources = <<>> THEN R
    ELSE ProcessResourcesUnion(
            MapPut(R, Head(resources), MapGet(R, Head(resources)) \o verbs),
            Tail(resources), verbs)

\* for _, resource := range rule.Resources { ... = rule.Verbs }
RECURSIVE ProcessResources(_, _, _)
ProcessResources(R, resources, verbs) ==
    IF resources = <<>> THEN R
    ELSE ProcessResources(MapPut(R, Head(resources), verbs), Tail(resources), verbs)

\* for _, rule := range cr.Rules
RECURSIVE ProcessRules(_, _)
ProcessRules(st, rules) ==
    IF rules = <<>> THEN st
    ELSE LET rule == Head(rules) IN
         ProcessRules(
            [st EXCEPT
               !.APIGroups = ProcessAPIGroups(@, rule.APIGroups, rule.Resources),
               !.Resources = ProcessResources(@, rule.Resources, rule.Verbs)],
            Tail(rules))

\* Variant: the subject's kind is not looked at.
SubjectMatchesAnyKind(subject, username) == subject.Name = username

SubjectMatches(subject, username) ==
    subject.Kind = "User" /\ subject.Name = username

\* for _, subject := range crb.Subjects
RECURSIVE ProcessSubjects(_, _, _, _)
ProcessSubjects(st, subjects, roleRef, username) ==
    IF st.err \/ subjects = <<>> THEN st
    ELSE IF SubjectMatches(Head(subjects), username)
    THEN LET cr == GetClusterRole(roleRef)
             st1 == [st EXCEPT !.fetched = Append(@, roleRef)]
         IN IF cr.err THEN [st1 EXCEPT !.err = TRUE]
            ELSE ProcessSubjects(ProcessRules(st1, cr.Rules), Tail(subjects),
                                 roleRef, username)
    ELSE ProcessSubjects(st, Tail(subjects), roleRef, username)

\* for _, crb := range crbs.Items
RECURSIVE ProcessBindings(_, _, _)
ProcessBindings(st, crbs, username) ==
    IF st.err \/ crbs = <<>> THEN st
    ELSE ProcessBindings(
            ProcessSubjects(st, Head(crbs).Subjects, Head(crbs).RoleRef, username),
            Tail(crbs), username)

\* Variant: a failed role fetch returns what was folded so far.
GetUserPermissionsPartial(w, username) ==
    IF w.listErr
    THEN [perms |-> NilPermissions, nil |-> TRUE, err |-> TRUE, fetched |-> <<>>]
    ELSE LET st == ProcessBindings(EmptyPermissions, w.crbs, username) IN
         [perms |-> [Resources |-> st.Resources, APIGroups |-> st.APIGroups],
          nil |-> FALSE, err |-> st.err, fetched |-> st.fetched]

\* GetUserPermissions(k8s, username): the returned pair and the roles fetched.
GetUserPermissions(w, username) ==
    IF w.listErr
    THEN [perms |-> NilPermissions, nil |-> TRUE, err |-> TRUE, fetched |-> <<>>]
    ELSE LET st == ProcessBindings(EmptyPermissions, w.crbs, username) IN
         IF st.err
         THEN [perms |-> NilPermissions, nil |-> TRUE, err |-> TRUE,
               fetched |-> st.fetched]
         ELSE [perms |-> [Resources |-> st.Resources, APIGroups |-> st.APIGroups],
               nil |-> FALSE, err |-> FALSE, fetched |-> st.fetched]

VerbGranted(verbs, verb) ==
    \E i \in 1..Len(verbs) : verbs[i] = "*" \/ verbs[i] = verb

\* Variant: "core" is looked up as it is.
NormalizeGroupNone(apiGroup) == apiGroup

NormalizeGroup(apiGroup) == IF apiGroup = "core" THEN "" ELSE apiGroup

ResourceAllowed(allowed, resource) ==
    \E i \in 1..Len(allowed) : allowed[i] = "*" \/ allowed[i] = resource

\* Variant: the wildcard resource is subject to the group check like any other.
HasPermissionNoGlobal(p, apiGroup, resource, verb) ==
    \E r \in {"*", resource} :
       /\ HasKey(p.Resources, r)
       /\ VerbGranted(p.Resources[r], verb)
       /\ HasKey(p.APIGroups, NormalizeGroup(apiGroup))
       /\ ResourceAllowed(p.APIGroups[NormalizeGroup(apiGroup)], resource)

\* (p *UserPermissions) HasPermission(apiGroup, resource, verb)
HasPermission(p, apiGroup, resource, verb) ==
    \/ HasKey(p.Resources, "*") /\ VerbGranted(p.Resources["*"], verb)
    \/ /\ HasKey(p.Resources, resource)
       /\ VerbGranted(p.Resources[resource], verb)
       /\ HasKey(p.APIGroups, NormalizeGroup(apiGroup))
       /\ ResourceAllowed(p.APIGroups[NormalizeGroup(apiGroup)], resource)

\* Variant: the gate asks for "get".
FilterResourcesGet(p, apiGroup, resourceType, resources) ==
    IF ~HasPermission(p, apiGroup, resourceType, "get") THEN <<>>
    ELSE resources

\* (p *UserPermissions) FilterResources(apiGroup, resourceType, resources)
FilterResources(p, apiGroup, resourceType, resources) ==
    IF ~HasPermission(p, apiGroup, resourceType, "list") THEN <<>>
    ELSE resources

Items == {"a", "b"}
RECURSIVE ItemLists(_)
ItemLists(n) ==
    IF n = 0 THEN {<<>>}
    ELSE ItemLists(n - 1) \cup
         {Append(s, b) : s \in {t \in ItemLists(n - 1) : Len(t) = n - 1}, b \in Items}

NoWorld == [listErr |-> FALSE, crbs |-> <<>>, username |-> "alice",
            resolved |-> FALSE]
NoRes == [perms |-> NilPermissions, nil |-> TRUE, err |-> FALSE, fetched |-> <<>>]
NoEval == [op |-> "none", apiGroup |-> "", resource |-> "pods", verb |-> "get",
           items |-> <<>>, ret |-> FALSE, out |-> <<>>]

\* A caller resolves the permissions of username against the authority.
Resolve(w, username) ==
    /\ world' = [listErr |-> w.listErr, crbs |-> w.crbs, username |-> username,
                 resolved |-> TRUE]
    /\ res' = GetUserPermissions(w, username)
    /\ eval' = NoEval
    /\ UNCHANGED cacheVars

\* UserPermissions values a caller builds itself: both maps are exported.
VerbLists == {<<"get">>, <<"list", "*">>}
ResourceLists == {<<"pods">>, <<"svc">>, <<"*">>}

PartialMaps(keys, vals) == UNION {[d -> vals] : d \in SUBSET keys}

Snapshots ==
    [Resources : PartialMaps({"*", "pods"}, VerbLists),
     APIGroups : PartialMaps({""}, ResourceLists)]

\* A caller takes a UserPermissions literal instead of a resolved one.
Literal(p) ==
    /\ world' = NoWorld
    /\ res' = [perms |-> p, nil |-> FALSE, err |-> FALSE, fetched |-> <<>>]
    /\ eval' = NoEval
    /\ UNCHANGED cacheVars

\* A caller evaluates the snapshot it holds.
Has(apiGroup, resource, verb) ==
    /\ ~res.nil
    /\ eval' = [NoEval EXCEPT !.op = "Has", !.apiGroup = apiGroup,
                  !.resource = resource, !.verb = verb,
                  !.ret = HasPermission(res.perms, apiGroup, resource, verb)]
    /\ UNCHANGED <<cacheVars, world, res>>

Filter(apiGroup, resourceType, items) ==
    /\ ~res.nil
    /\ eval' = [NoEval EXCEPT !.op = "Filter", !.apiGroup = apiGroup,
                  !.resource = resourceType, !.verb = "list", !.items = items,
                  !.out = FilterResources(res.perms, apiGroup, resourceType, items)]
    /\ UNCHANGED <<cacheVars, world, res>>

\* ------------------------------------------------------------------------
\* Specifications
\* ------------------------------------------------------------------------
InitHeap ==
    [r \in Refs |->
        [rp |-> IF r = "s1" THEN [x \in {"pods"} |-> <<"list", "get">>]
                ELSE [x \in {"pods"} |-> <<"*">>],
         lc |-> 0]]

Init ==
    /\ cache = [u \in Users |-> Absent]
    /\ heap = InitHeap
    /\ now = 0
    /\ readers = {}
    /\ writers = {}
    /\ call = [c \in Callers |-> Idle]
    /\ world = NoWorld
    /\ res = NoRes
    /\ eval = NoEval

CacheStep(c) ==
    \/ \E u \in Users, r \in ResourceTypes, v \in CheckVerbs : CheckCall(c, u, r, v)
    \/ CheckRLock(c)
    \/ CheckRead(c)
    \/ CheckTest(c)
    \/ CheckAuthReturn(c)
    \/ CheckCached(c)
    \/ \E u \in Users, s \in Refs \cup {NilRef} : PutCall(c, u, s)
    \/ PutLock(c)
    \/ PutWrite(c)
    \/ \E u \in Users : GetCall(c, u)
    \/ GetRLock(c)
    \/ GetRead(c)
    \/ \E u \in Users : DeleteCall(c, u)
    \/ DeleteLock(c)
    \/ DeleteWrite(c)

\* One caller at a time, the clock, the callers' own writes to their snapshots
\* and the resolver on one listing: the sequential behaviour of the cache.
OneListing == [listErr |-> FALSE,
               crbs |-> <<Binding(<<Subject("User", "alice")>>, "lister")>>]

Next ==
    \/ \E c \in SeqCallers : CacheStep(c)
    \/ Tick
    \/ \E r \in Mutable : MutateSnapshot(r)
    \/ Resolve(OneListing, "alice")
    \/ Has("core", "pods", "list")
    \/ Filter("core", "pods", <<"a">>)

Spec == Init /\ [][Next]_vars

\* The resolver and the evaluator over every listing within the bounds.
NextResolve ==
    \/ \E w \in Worlds, u \in Users : Resolve(w, u)
    \/ \E p \in Snapshots : Literal(p)
    \/ \E g \in Groups, r \in ResourceTypes, v \in EvalVerbs : Has(g, r, v)
    \/ \E g \in FilterGroups, r \in ResourceTypes, l \in ItemLists(MaxItems) :
          Filter(g, r, l)

SpecResolve == Init /\ [][NextResolve]_vars

\* Concurrent callers, each storing one snapshot for its own principal and
\* reading it back.
PrincipalOf(c) == IF c = "c1" THEN "alice" ELSE "bob"

NextPut ==
    \E c \in Callers :
       \/ call[c].pc = "idle" /\ \E s \in Refs \cup {NilRef} : PutCall(c, PrincipalOf(c), s)
       \/ PutLock(c)
       \/ PutWrite(c)
       \/ call[c].op = "Put" /\ GetCall(c, PrincipalOf(c))
       \/ GetRLock(c)
       \/ GetRead(c)

SpecPut == Init /\ [][NextPut]_vars

\* Concurrent callers working on one user's entry, under the scheduling the
\* runtime gives: every goroutine that can take a step eventually takes it,
\* and a goroutine waiting for the RWMutex gets it once it is free often
\* enough. The authority owes caller c1 no answer.
ConcUser == "alice"
Hanging == {"c1"}

ConcStep(c) ==
    \/ CheckCall(c, ConcUser, "pods", "get")
    \/ CheckRLock(c)
    \/ CheckRead(c)
    \/ CheckTest(c)
    \/ CheckAuthReturn(c)
    \/ CheckCached(c)
    \/ \E s \in Refs \cup {NilRef} : PutCall(c, ConcUser, s)
    \/ PutLock(c)
    \/ PutWrite(c)
    \/ GetCall(c, ConcUser)
    \/ GetRLock(c)
    \/ GetRead(c)
    \/ DeleteCall(c, ConcUser)
    \/ DeleteLock(c)
    \/ DeleteWrite(c)

NextConc == \E c \in Callers : ConcStep(c)

Fair(c) ==
    /\ SF_vars(CheckRLock(c)) /\ SF_vars(GetRLock(c))
    /\ SF_vars(PutLock(c)) /\ SF_vars(DeleteLock(c))
    /\ WF_vars(CheckRead(c)) /\ WF_vars(CheckTest(c)) /\ WF_vars(CheckCached(c))
    /\ WF_vars(PutWrite(c)) /\ WF_vars(GetRead(c)) /\ WF_vars(DeleteWrite(c))

SpecConc ==
    /\ Init
    /\ [][NextConc]_vars
    /\ \A c \in Callers : Fair(c)
    /\ \A c \in Callers \ Hanging : WF_vars(CheckAuthReturn(c))

\* ------------------------------------------------------------------------
\* Properties
\* ------------------------------------------------------------------------
Range(s) == {s[i] : i \in DOMAIN s}

Finished(c, op) == call[c].pc = "done" /\ call[c].op = op
Steps(c, from, to) == call[c].pc = from /\ call'[c].pc = to

\* The rules GetUserPermissions folds for username: those of the roles of the
\* bindings that name the user.
MatchedRules(w, username) ==
    UNION { Range(GetClusterRole(w.crbs[i].RoleRef).Rules) :
            i \in { j \in DOMAIN w.crbs :
                      \E k \in DOMAIN w.crbs[j].Subjects :
                         SubjectMatches(w.crbs[j].Subjects[k], username) } }

\* C1: a folded rule with apiGroup "*", resource r and verb v (Resources[r]
\* still holding that rule's verbs) makes HasPermission(g, r, v) true for
\* every requested apiGroup g.
C1_WildcardGroupGrantsEveryGroup ==
    (/\ eval.op = "Has"
     /\ ~res.nil
     /\ \E rule \in MatchedRules(world, world.username) :
           /\ "*" \in Range(rule.APIGroups)
           /\ eval.resource \in Range(rule.Resources)
           /\ eval.verb \in Range(rule.Verbs)
           /\ HasKey(res.perms.Resources, eval.resource)
           /\ res.perms.Resources[eval.resource] = rule.Verbs)
    => eval.ret

\* C2: on the cached path CheckUserPermissions answers true exactly when the
\* requested verb occurs literally among the cached verbs of the resource
\* type, false when the resource type is missing, and has not called the
\* authority.
C2_CachedPathExactMatch ==
    [][\A c \in Callers :
          Steps(c, "c_cached", "done") =>
             LET obj == heap[call[c].perm.ref]
                 literal == /\ call[c].rtype \in DOMAIN obj.rp
                            /\ call[c].verb \in Range(obj.rp[call[c].rtype])
             IN /\ call'[c].ret = (IF literal THEN "true" ELSE "false")
                /\ call'[c].n = 0]_vars

C2_Witness ==
    \E c \in Callers :
       /\ Finished(c, "Check")
       /\ call[c].perm = [exists |-> TRUE, ref |-> "s2"]
       /\ call[c].rtype = "pods" /\ call[c].verb = "get"
       /\ heap["s2"].rp["pods"] = <<"*">>
       /\ call[c].ret = "false" /\ call[c].n = 0

\* C3: the authority is called exactly when the user has no entry or the
\* entry is older than 5 minutes; an entry of age 5 minutes or less is
\* answered from the cache. The authority is called nowhere else.
Age(r) == now - heap[r].lc

C3_FreshnessBoundary ==
    [][\A c \in Callers :
          /\ (call[c].pc = "c_test" /\ call'[c].pc # "c_test"
              /\ ~(call[c].perm.exists /\ call[c].perm.ref = NilRef)) =>
                LET p == call[c].perm
                    live == ~p.exists \/ Age(p.ref) > 5
                IN /\ live <=> (call'[c].pc = "c_auth" /\ call'[c].n = call[c].n + 1)
                   /\ ~live <=> (call'[c].pc = "c_cached" /\ call'[c].n = call[c].n)
          /\ call'[c].n > call[c].n => Steps(c, "c_test", "c_auth")]_vars

C3_Witness ==
    \E c \in Callers :
       /\ call[c].pc = "c_cached"
       /\ call[c].n = 0
       /\ Age(call[c].perm.ref) = 5

\* C4: when the authority call succeeds, CheckUserPermissions returns the
\* Allowed flag of the first review, and false for an empty review sequence,
\* whatever a stale entry holds.
C4_LiveResultIsFirstReview ==
    \A c \in Callers :
       (Finished(c, "Check") /\ call[c].n = 1 /\ ~call[c].resp.err) =>
          call[c].ret = (IF call[c].resp.review = <<>> THEN "false"
                         ELSE IF call[c].resp.review[1] THEN "true" ELSE "false")

C4_Witness ==
    \E c \in Callers :
       /\ Finished(c, "Check")
       /\ call[c].n = 1
       /\ call[c].perm = [exists |-> TRUE, ref |-> "s2"]
       /\ call[c].rtype = "pods" /\ call[c].verb = "*"
       /\ Contains(heap["s2"].rp["pods"], "*")
       /\ call[c].resp = [err |-> FALSE, review |-> <<FALSE, TRUE>>]
       /\ call[c].ret = "false"

\* C5: when the authority call fails, CheckUserPermissions ends with the
\* error, never with true, and has called the authority exactly once.
C5_AuthorityErrorNoFallback ==
    \A c \in Callers :
       /\ call[c].n <= 1
       /\ (Finished(c, "Check") /\ call[c].resp.err) =>
             (call[c].ret = "error" /\ call[c].n = 1)

C5_Witness ==
    \E c \in Callers :
       /\ Finished(c, "Check")
       /\ call[c].resp.err
       /\ call[c].perm = [exists |-> TRUE, ref |-> "s2"]
       /\ call[c].rtype = "pods" /\ call[c].verb = "*"
       /\ Contains(heap["s2"].rp["pods"], "*")
       /\ call[c].ret = "error"

\* C6: the user -> snapshot mapping changes only in the write step of
\* CacheUserPermissions or ClearUserPermissions; every step of
\* CheckUserPermissions, of the cache's GetUserPermissions, of the resolver,
\* of HasPermission and of FilterResources leaves it as it is.
C6_OnlyPutAndDeleteWrite ==
    [][cache' # cache =>
          \E c \in Callers :
             Steps(c, "p_write", "done") \/ Steps(c, "d_write", "done")]_vars

C6_Witness ==
    \E c \in Callers :
       /\ Finished(c, "Check")
       /\ call[c].n = 1
       /\ call[c].perm.exists
       /\ call[c].perm.ref \in Refs
       /\ cache[call[c].user] = call[c].perm.ref
       /\ Age(call[c].perm.ref) > 5
       /\ ~res.nil
       /\ eval.op = "Filter"

\* C7: CacheUserPermissions(P, S) makes S the entry of P, replacing any
\* earlier entry and touching no other user's entry; the entry of P changes
\* by no step other than a store or a clear for P; GetUserPermissions(P)
\* returns the entry of P.
C7_LastWriteWins ==
    [][\A c \in Callers :
          /\ Steps(c, "p_write", "done") =>
                /\ cache'[call[c].user] = call[c].snap
                /\ \A u \in Users \ {call[c].user} : cache'[u] = cache[u]
          /\ Steps(c, "g_read", "done") =>
                /\ cache[call[c].user] # Absent => call'[c].ret = cache[call[c].user]
          /\ \A u \in Users :
                cache'[u] # cache[u] =>
                   \E d \in Callers :
                      /\ call[d].user = u
                      /\ call[d].pc \in {"p_write", "d_write"}
                      /\ call'[d].pc = "done"]_vars

C7_Witness ==
    \E c \in Callers :
       /\ Finished(c, "Get")
       /\ call[c].ret = "s2"
       /\ cache[call[c].user] = "s2"
       /\ \E u \in Users \ {call[c].user} : cache[u] = "s1"

\* C8: ClearUserPermissions(P) leaves P without an entry whether or not it
\* had one, reports no error, changes no other user's entry, and clearing
\* twice gives the cache clearing once gives; GetUserPermissions(P) then
\* returns nil.
C8_DeleteIdempotent ==
    [][\A c \in Callers :
          /\ Steps(c, "d_write", "done") =>
                /\ cache'[call[c].user] = Absent
                /\ \A u \in Users \ {call[c].user} : cache'[u] = cache[u]
                /\ call'[c].ret = "ok"
                /\ DeleteKey(cache', call[c].user) = cache'
          /\ (Steps(c, "g_read", "done") /\ cache[call[c].user] = Absent) =>
                call'[c].ret = NilRef]_vars

C8_Witness ==
    \E c \in Callers :
       /\ Finished(c, "Delete")
       /\ cache[call[c].user] = Absent
       /\ \E u \in Users \ {call[c].user} : cache[u] \in Refs

\* C9: concurrent CacheUserPermissions calls for distinct users lose no
\* write: once a caller's store has returned, the entry of its user is the
\* snapshot it stored, and reading it back returns that entry.
C9_NoLostWrites ==
    \A c \in Callers :
       /\ Finished(c, "Put") => cache[PrincipalOf(c)] = call[c].snap
       /\ Finished(c, "Get") =>
             /\ cache[PrincipalOf(c)] # Absent
             /\ call[c].ret = cache[PrincipalOf(c)]

C9_Witness ==
    /\ \A c \in Callers : Finished(c, "Get") /\ call[c].ret \in Refs
    /\ \A u \in Users : cache[u] \in Refs

\* C10: while no store or clear for P happens, the snapshot that is the
\* entry of P keeps the value it had.
C10_SnapshotNeverMutatedInPlace ==
    [][\A u \in Users :
          (cache[u] \in Refs /\ cache'[u] = cache[u]) =>
             heap'[cache[u]] = heap[cache[u]]]_vars


\* The roles GetUserPermissions has to fold for username, in processing
\* order: the role of each binding once per subject that is this very user.
IsOwnUser(subject, username) == subject.Kind = "User" /\ subject.Name = username

RECURSIVE OwnSubjects(_, _)
OwnSubjects(subjects, username) ==
    IF subjects = <<>> THEN <<>>
    ELSE (IF IsOwnUser(Head(subjects), username) THEN <<Head(subjects)>> ELSE <<>>)
         \o OwnSubjects(Tail(subjects), username)

RECURSIVE FoldedRoles(_, _)
FoldedRoles(crbs, username) ==
    IF crbs = <<>> THEN <<>>
    ELSE [i \in 1..Len(OwnSubjects(Head(crbs).Subjects, username)) |-> Head(crbs).RoleRef]
         \o FoldedRoles(Tail(crbs), username)

RECURSIVE RulesOfRoles(_)
RulesOfRoles(roles) ==
    IF roles = <<>> THEN <<>>
    ELSE (IF Head(roles) \in DOMAIN ClusterRoles THEN ClusterRoles[Head(roles)] ELSE <<>>)
         \o RulesOfRoles(Tail(roles))

FoldedRules(w, username) == RulesOfRoles(FoldedRoles(w.crbs, username))

MaxOf(S) == CHOOSE i \in S : \A j \in S : j <= i
MinOf(S) == CHOOSE i \in S : \A j \in S : i <= j

\* C11: when Resources["*"] holds the requested verb or "*", HasPermission
\* is true for every apiGroup and resource, whatever APIGroups holds.
C11_GlobalWildcard ==
    (/\ eval.op = "Has"
     /\ "*" \in DOMAIN res.perms.Resources
     /\ \/ eval.verb \in Range(res.perms.Resources["*"])
        \/ "*" \in Range(res.perms.Resources["*"]))
    => eval.ret

C11_Witness ==
    /\ eval.op = "Has"
    /\ "*" \in DOMAIN res.perms.Resources
    /\ res.perms.Resources["*"] = <<"get">>
    /\ eval.verb = "get"
    /\ DOMAIN res.perms.APIGroups = {}
    /\ eval.apiGroup = "apps"
    /\ eval.ret

\* C12: when the wildcard resource does not grant the verb, HasPermission is
\* true exactly when Resources[resource] holds the verb or "*" and
\* APIGroups[g] holds the resource or "*", g being the apiGroup with "core"
\* read as ""; "core" and "" always give the same answer.
GlobalGrants(p, verb) ==
    /\ "*" \in DOMAIN p.Resources
    /\ {verb, "*"} \cap Range(p.Resources["*"]) # {}

SpecificGrants(p, g, resource, verb) ==
    /\ resource \in DOMAIN p.Resources
    /\ {verb, "*"} \cap Range(p.Resources[resource]) # {}
    /\ g \in DOMAIN p.APIGroups
    /\ {resource, "*"} \cap Range(p.APIGroups[g]) # {}

C12_ResourceSpecific ==
    /\ (eval.op = "Has" /\ ~GlobalGrants(res.perms, eval.verb)) =>
          (eval.ret <=>
             SpecificGrants(res.perms,
                            IF eval.apiGroup = "core" THEN "" ELSE eval.apiGroup,
                            eval.resource, eval.verb))
    /\ ~res.nil =>
          \A r \in ResourceTypes, v \in EvalVerbs :
             HasPermission(res.perms, "core", r, v) = HasPermission(res.perms, "", r, v)

C12_Witness ==
    /\ eval.op = "Has"
    /\ ~GlobalGrants(res.perms, eval.verb)
    /\ eval.apiGroup = "core"
    /\ "" \in DOMAIN res.perms.APIGroups
    /\ eval.ret

\* C13: after GetUserPermissions, Resources[r] is the verb list of the last
\* folded rule that names r (the wildcard resource included), not a union
\* with the verbs of earlier rules.
C13_LastRuleWins ==
    (world.resolved /\ ~res.err) =>
       LET rules == FoldedRules(world, world.username)
           naming(r) == {i \in DOMAIN rules : r \in Range(rules[i].Resources)}
       IN /\ DOMAIN res.perms.Resources =
                UNION {Range(rules[i].Resources) : i \in DOMAIN rules}
          /\ \A r \in DOMAIN res.perms.Resources :
                res.perms.Resources[r] = rules[MaxOf(naming(r))].Verbs

C13_Witness ==
    /\ world.resolved /\ ~res.err
    /\ LET rules == FoldedRules(world, world.username) IN
         \E i, j \in DOMAIN rules :
            /\ i < j
            /\ "pods" \in Range(rules[i].Resources) \cap Range(rules[j].Resources)
            /\ "list" \in Range(rules[i].Verbs)
            /\ res.perms.Resources["pods"] = <<"get">>

\* C14: GetUserPermissions fails exactly when the listing fails or a role of
\* one of the user's bindings cannot be fetched; it then returns no snapshot
\* and has fetched nothing after the first failing role.
C14_AllOrNothing ==
    world.resolved =>
       LET roles == FoldedRoles(world.crbs, world.username)
           failing == {i \in DOMAIN roles : roles[i] \notin DOMAIN ClusterRoles}
       IN /\ res.err <=> (world.listErr \/ failing # {})
          /\ res.err => (res.nil /\ res.perms = NilPermissions)
          /\ world.listErr => res.fetched = <<>>
          /\ (~world.listErr /\ failing # {}) =>
                res.fetched = SubSeq(roles, 1, MinOf(failing))
          /\ ~res.err => (~res.nil /\ res.fetched = roles)

C14_Witness ==
    /\ world.resolved /\ res.err /\ ~world.listErr
    /\ res.nil
    /\ Len(res.fetched) < Len(FoldedRoles(world.crbs, world.username))

\* C15: FilterResources returns no item when HasPermission(apiGroup,
\* resourceType, "list") is false and the items as given otherwise.
C15_FilterIsGate ==
    eval.op = "Filter" =>
       eval.out = (IF HasPermission(res.perms, eval.apiGroup, eval.resource, "list")
                   THEN eval.items ELSE <<>>)

C15_Witness ==
    /\ eval.op = "Filter"
    /\ Len(eval.items) = 2 /\ eval.items[1] # eval.items[2]
    /\ HasPermission(res.perms, eval.apiGroup, eval.resource, "get")
    /\ eval.out = <<>>

\* C18: the result of GetUserPermissions is that of the listing reduced to
\* the bindings and subjects that are User subjects named as the user; with
\* no such binding it is the empty snapshot, without error and without a
\* role fetch.
RECURSIVE OwnBindings(_, _)
OwnBindings(crbs, username) ==
    IF crbs = <<>> THEN <<>>
    ELSE LET own == OwnSubjects(Head(crbs).Subjects, username) IN
         (IF own = <<>> THEN <<>> ELSE <<Binding(own, Head(crbs).RoleRef)>>)
         \o OwnBindings(Tail(crbs), username)

C18_OnlyOwnUserBindings ==
    (world.resolved /\ ~world.listErr) =>
       /\ res = GetUserPermissions(
                   [listErr |-> FALSE, crbs |-> OwnBindings(world.crbs, world.username)],
                   world.username)
       /\ Range(res.fetched) \subseteq Range(FoldedRoles(world.crbs, world.username))
       /\ OwnBindings(world.crbs, world.username) = <<>> =>
             /\ ~res.err /\ ~res.nil /\ res.fetched = <<>>
             /\ DOMAIN res.perms.Resources = {}
             /\ DOMAIN res.perms.APIGroups = {}

C18_Witness ==
    /\ world.resolved /\ ~world.listErr
    /\ world.username = "alice"
    /\ Len(world.crbs) = 2
    /\ \A i \in DOMAIN world.crbs :
          \E k \in DOMAIN world.crbs[i].Subjects :
             world.crbs[i].Subjects[k] = Subject("Group", "alice")
    /\ ~res.err /\ ~res.nil /\ res.fetched = <<>>
    /\ DOMAIN res.perms.Resources = {}

\* C19: after GetUserPermissions, APIGroups[g] is the concatenation, in
\* processing order, of the resource lists of every folded rule that names g
\* (a rule's "*" counting as "core"), duplicates kept.
RECURSIVE GroupAppends(_, _, _)
GroupAppends(groups, g, resources) ==
    IF groups = <<>> THEN <<>>
    ELSE (IF (IF Head(groups) = "*" THEN "core" ELSE Head(groups)) = g
          THEN resources ELSE <<>>)
         \o GroupAppends(Tail(groups), g, resources)

RECURSIVE Cumulative(_, _)
Cumulative(rules, g) ==
    IF rules = <<>> THEN <<>>
    ELSE GroupAppends(Head(rules).APIGroups, g, Head(rules).Resources)
         \o Cumulative(Tail(rules), g)

C19_APIGroupsCumulative ==
    (world.resolved /\ ~res.err) =>
       LET rules == FoldedRules(world, world.username) IN
          /\ DOMAIN res.perms.APIGroups =
                {IF x = "*" THEN "core" ELSE x :
                   x \in UNION {Range(rules[i].APIGroups) : i \in DOMAIN rules}}
          /\ \A g \in DOMAIN res.perms.APIGroups :
                res.perms.APIGroups[g] = Cumulative(rules, g)

C19_Witness ==
    /\ world.resolved /\ ~res.err
    /\ "core" \in DOMAIN res.perms.APIGroups
    /\ res.perms.APIGroups["core"] = <<"pods", "pods">>


\* C16: a CheckUserPermissions waiting for the authority holds the RWMutex
\* neither for reading nor for writing, and every operation of another
\* caller that has started completes, also when the authority never answers
\* the waiting caller.
C16_AuthorityCallOutsideLock ==
    /\ [](\A c \in Callers : call[c].pc = "c_auth" => c \notin readers \cup writers)
    /\ \A c \in Callers \ Hanging :
          (call[c].pc \notin {"idle", "done"}) ~> (call[c].pc = "done")

C16_Witness ==
    \E c \in Hanging, d \in Callers \ Hanging :
       /\ call[c].pc = "c_auth"
       /\ ~call[c].perm.exists
       /\ Finished(d, "Put")
       /\ call[d].snap \in Refs
       /\ cache[ConcUser] = call[d].snap

\* C17: every read of the entry, by GetUserPermissions or by
\* CheckUserPermissions, yields the entry as it is at that instant, which is
\* absent or the pointer one CacheUserPermissions stored; the cached-path
\* answer is the exact-match answer on the snapshot read, whatever has become
\* of the entry since.
C17_ReadersSeeWholeSnapshots ==
    [][\A c \in Callers :
          /\ Steps(c, "c_read", "c_test") =>
                call'[c].perm = (IF cache[call[c].user] = Absent
                                 THEN [exists |-> FALSE, ref |-> NilRef]
                                 ELSE [exists |-> TRUE, ref |-> cache[call[c].user]])
          /\ Steps(c, "g_read", "done") =>
                call'[c].ret = (IF cache[call[c].user] = Absent THEN NilRef
                                ELSE cache[call[c].user])
          /\ Steps(c, "c_cached", "done") =>
                LET obj == heap[call[c].perm.ref] IN
                   call'[c].ret = (IF /\ call[c].rtype \in DOMAIN obj.rp
                                      /\ call[c].verb \in Range(obj.rp[call[c].rtype])
                                   THEN "true" ELSE "false")
          /\ cache'[call[c].user] # cache[call[c].user] =>
                \E d \in Callers :
                   \/ Steps(d, "p_write", "done") /\ cache'[call[d].user] = call[d].snap
                   \/ Steps(d, "d_write", "done") /\ cache'[call[d].user] = Absent]_vars

C17_Witness ==
    \E c \in Callers :
       /\ call[c].pc = "c_cached"
       /\ call[c].perm = [exists |-> TRUE, ref |-> "s1"]
       /\ cache[call[c].user] = "s2"

\* C20: CheckUserPermissions ends with a boolean or with the authority's
\* error whatever the cache holds, a nil snapshot stored for the user
\* included.
C20_CheckNeverCrashes ==
    \A c \in Callers :
       Finished(c, "Check") => call[c].ret \in {"true", "false", "error"}

====
